---------------------------- MODULE Spec2Model ----------------------------
(***************************************************************************)
(* matchday-sync: three sync scripts (football, rugby, GAA) that normalise *)
(* fixture payloads, deduplicate them, resolve which fixtures already have *)
(* a row in the Airtable "Fixtures" table, and create/update rows in       *)
(* batches.  The model follows src/sync_fixtures_to_airtable.py,           *)
(* src/sync_rugby_to_airtable.py and src/sync_gaa_to_airtable.py.          *)
(*                                                                         *)
(* Modelling conventions                                                   *)
(*   - a Python dict is a function over its string keys; a missing key is  *)
(*     a key outside DOMAIN;                                               *)
(*   - Python's None / JSON null in a text field is the value None;        *)
(*   - a raw timestamp string is kept in parsed-token form, see DateStr.   *)
(***************************************************************************)
EXTENDS Integers, Sequences, FiniteSets, TLC

VARIABLES
    store,   \* the remote table: a sequence of rows [id |-> handle, fields |-> dict]
    nextId,  \* the store's counter for fresh row handles
    run,     \* per process: the state of its sync run (script, position, locals)
    prev,    \* summary of the last finished run, kept to relate successive runs
    call,    \* one stand-alone invocation of api_get_with_retry, with its responses
    fn,      \* one application of a pure function: its inputs and its result
    orch     \* sync_all_sports: its position in the loop over SCRIPTS and its log

vars == <<store, nextId, run, prev, call, fn, orch>>

(***************************************************************************)
(* Bounds of the model.                                                    *)
(***************************************************************************)
MaxRaw   == 2   \* payloads fetched by one run of the state machine
MaxRuns  == 2   \* sync runs per process in one behaviour
MaxFnLen == 3   \* length of the lists the pure functions are applied to
MaxIds   == 123 \* identities handed to the resolver on its own
MaxPlan  == 23  \* records handed to the writer on its own
MaxRows  == 2   \* rows the table holds when the resolver runs on its own

(***************************************************************************)
(* Program constants.                                                      *)
(***************************************************************************)
LookupChunk == 50   \* chunked(list(fixture_ids), 50)
WriteBatch  == 10   \* chunked(records, 10)
MaxRetries  == 3    \* api_get_with_retry(..., max_retries=3)
RugbyWindow == 30   \* timedelta(days=30)

Scripts == {"football", "rugby", "gaa"}

None == "<None>"

(***************************************************************************)
(* Python helpers.                                                         *)
(***************************************************************************)
\* dict.get(k, default)
Get(d, k, default) == IF k \in DOMAIN d THEN d[k] ELSE default

\* truthiness of a text value: None and "" are falsy
Truthy(s) == s # None /\ s # ""

\* x or ""
OrEmpty(s) == IF Truthy(s) THEN s ELSE ""

\* the sequence s without its first n elements / its first n elements
Drop(s, n) == IF n >= Len(s) THEN <<>> ELSE SubSeq(s, n + 1, Len(s))
Take(s, n) == IF n >= Len(s) THEN s ELSE SubSeq(s, 1, n)

\* the slices taken with a step of size + 1: one element lost between two slices
RECURSIVE chunked_step(_, _)
chunked_step(iterable, size) ==
    IF iterable = <<>> THEN <<>>
    ELSE <<Take(iterable, size)>> \o chunked_step(Drop(iterable, size + 1), size)

\* chunked(iterable, size): successive slices iterable[i:i+size]
RECURSIVE chunked(_, _)
chunked(iterable, size) ==
    IF iterable = <<>> THEN <<>>
    ELSE <<Take(iterable, size)>> \o chunked(Drop(iterable, size), size)

Range(s) == {s[i] : i \in DOMAIN s}

\* all sequences over S of length at most n
SeqsUpTo(S, n) == UNION {[1..k -> S] : k \in 0..n}


(***************************************************************************)
(* Timestamps.  A raw timestamp string is kept as its tokens:              *)
(*   [ymd |-> <<y, m, d>>, hm |-> <<h, mi>>, off |-> o]                    *)
(*        the text "YYYY-MM-DDTHH:MM:00" followed by the offset text o     *)
(*        ("Z", "+00:00", "+01:00", "-05:00");                             *)
(*   [ymd |-> <<y, m, d>>]   the date-only text "YYYY-MM-DD";              *)
(*   [text |-> s]            any other text s (no "T" in it), "" included. *)
(* Years 2025 and 2026 are covered (neither is a leap year).               *)
(***************************************************************************)
EmptyStr == [text |-> ""]

IsTimestamp(ds) == DOMAIN ds = {"ymd", "hm", "off"}
IsDateOnly(ds)  == DOMAIN ds = {"ymd"}

DaysInMonth(m) == CASE m \in {4, 6, 9, 11} -> 30
                    [] m = 2 -> 28
                    [] OTHER -> 31

\* the days of the months before month m: the running sum of DaysInMonth
DaysBeforeMonth(m) == <<0, 31, 59, 90, 120, 151, 181, 212, 243, 273, 304, 334>>[m]

\* days from 2025-01-01 to the date <<y, m, d>>
DayNumber(ymd) == 365 * (ymd[1] - 2025) + DaysBeforeMonth(ymd[2]) + (ymd[3] - 1)

\* the date <<y, m, d>> of a day number
DateOfDay(n) ==
    LET y   == 2025 + (n \div 365)
        doy == n % 365
        m   == CHOOSE k \in 1..12 :
                   DaysBeforeMonth(k) <= doy /\ doy < DaysBeforeMonth(k) + DaysInMonth(k)
    IN  <<y, m, doy - DaysBeforeMonth(m) + 1>>

\* the UTC offset, in minutes, that an offset text denotes
OffsetMinutes(off) == CASE off = "+01:00" -> 60
                        [] off = "-05:00" -> -300
                        [] OTHER -> 0          \* "Z" (replaced by "+00:00"), "+00:00"

\* the instant of a timestamp, in minutes of UTC since 2025-01-01T00:00Z
InstantOf(ds) == DayNumber(ds.ymd) * 1440 + ds.hm[1] * 60 + ds.hm[2] - OffsetMinutes(ds.off)

\* ZoneInfo("Europe/Dublin"): UTC+1 from the last Sunday of March 01:00 UTC to the
\* last Sunday of October 01:00 UTC (30 Mar - 26 Oct 2025, 29 Mar - 25 Oct 2026)
DublinOffset(utc) ==
    LET from25 == DayNumber(<<2025, 3, 30>>) * 1440 + 60
        to25   == DayNumber(<<2025, 10, 26>>) * 1440 + 60
        from26 == DayNumber(<<2026, 3, 29>>) * 1440 + 60
        to26   == DayNumber(<<2026, 10, 25>>) * 1440 + 60
    IN  IF (from25 <= utc /\ utc < to25) \/ (from26 <= utc /\ utc < to26) THEN 60 ELSE 0

\* dt.astimezone(LOCAL_TZ): the local wall clock [day, h, mi] of an instant
astimezone(utc) ==
    LET loc == utc + DublinOffset(utc)
    IN  [day |-> loc \div 1440, h |-> (loc % 1440) \div 60, mi |-> loc % 60]

Pad2(n) == IF n < 10 THEN "0" \o ToString(n) ELSE ToString(n)

\* strftime("%Y-%m-%d") and strftime("%H:%M")
FmtDate(ymd) == ToString(ymd[1]) \o "-" \o Pad2(ymd[2]) \o "-" \o Pad2(ymd[3])
FmtTime(h, mi) == Pad2(h) \o ":" \o Pad2(mi)

(***************************************************************************)
(* Normalisers.  Each returns                                              *)
(*   [kind |-> "ok", fields |-> dict]   the canonical record,              *)
(*   [kind |-> "none"]                  return None (payload rejected),    *)
(*   [kind |-> "raise"]                 an exception leaves the function.  *)
(***************************************************************************)
Ok(fields) == [kind |-> "ok", fields |-> fields]
Rejected   == [kind |-> "none"]
Raised     == [kind |-> "raise"]

EmptyDict == <<>>

\* sync_fixtures_to_airtable.normalise_fixture
normalise_fixture(fx) ==
    LET fixture_info == Get(fx, "fixture", EmptyDict)
        teams_info   == Get(fx, "teams", EmptyDict)
    IN  IF "id" \notin DOMAIN fixture_info THEN Rejected
        ELSE IF "date" \notin DOMAIN fixture_info \/ fixture_info["date"] = EmptyStr
        THEN Rejected
        ELSE IF ~IsTimestamp(fixture_info["date"]) THEN Raised   \* fromisoformat: ValueError
        ELSE
            LET dt_local == astimezone(InstantOf(fixture_info["date"]))
            IN  Ok([FixtureID |-> ToString(fixture_info["id"]),
                    Date      |-> FmtDate(DateOfDay(dt_local.day)),
                    Time      |-> FmtTime(dt_local.h, dt_local.mi),
                    Sport     |-> Get(fx, "_sport_label", "Football"),
                    TeamA     |-> Get(Get(teams_info, "home", EmptyDict), "name", ""),
                    TeamB     |-> Get(Get(teams_info, "away", EmptyDict), "name", ""),
                    TV        |-> "TBC",
                    Venue     |-> Get(Get(fixture_info, "venue", EmptyDict), "name", "")])

\* sync_rugby_to_airtable.normalise_rugby_fixture; today is
\* datetime.now(LOCAL_TZ).date() as a day number
normalise_rugby_fixture(fx, today) ==
    IF "id" \notin DOMAIN fx \/ fx["id"] = 0 THEN Rejected
    ELSE IF "date" \notin DOMAIN fx \/ fx["date"] = EmptyStr THEN Rejected
    ELSE IF ~IsTimestamp(fx["date"]) THEN Raised                 \* strptime: ValueError
    ELSE
        LET dt_local == astimezone(InstantOf(fx["date"]))
        IN  IF ~(today <= dt_local.day /\ dt_local.day <= today + RugbyWindow)
            THEN Rejected
            ELSE Ok([FixtureID |-> ToString(fx["id"]),
                     Date      |-> FmtDate(DateOfDay(dt_local.day)),
                     Time      |-> FmtTime(dt_local.h, dt_local.mi),
                     Sport     |-> Get(fx, "_sport_label", "Rugby"),
                     TeamA     |-> Get(fx, "home", ""),
                     TeamB     |-> Get(fx, "away", ""),
                     TV        |-> "TBC",
                     Venue     |-> IF Truthy(Get(fx, "venue", ""))
                                   THEN fx["venue"] ELSE "Unknown Venue"])

\* str.lower() of one word of a competition label
Lower(w) == CASE w = "Football" -> "football"
              [] w = "FOOTBALL" -> "football"
              [] w = "Hurling"  -> "hurling"
              [] w = "HURLING"  -> "hurling"
              [] w = "Senior"   -> "senior"
              [] w = "Camogie"  -> "camogie"
              [] w = "Championship" -> "championship"
              [] OTHER -> w

\* "needle" in group, for a label kept as its sequence of words
Contains(label, needle) == \E i \in DOMAIN label : Lower(label[i]) = needle

\* a JSON null where a competition label is expected
NullLabel == <<None>>

\* raw.get("Sport") or "": a missing, null or empty label is the empty text
sport_src(raw) ==
    IF "Sport" \notin DOMAIN raw \/ raw["Sport"] = NullLabel THEN <<>> ELSE raw["Sport"]

\* the two tests taken in the other order
sport_of_hurling_first(group) ==
    IF Contains(group, "hurling") THEN "Hurling"
    ELSE IF Contains(group, "football") THEN "Gaelic"
    ELSE "GAA"

\* the if / elif / else over group = sport_src.lower()
sport_of(group) ==
    IF Contains(group, "football") THEN "Gaelic"
    ELSE IF Contains(group, "hurling") THEN "Hurling"
    ELSE "GAA"

\* sync_gaa_to_airtable.normalise_gaa_fixture
normalise_gaa_fixture(raw) ==
    IF ~Truthy(Get(raw, "FixtureID", None)) THEN Rejected
    ELSE IF "Date" \notin DOMAIN raw \/ raw["Date"] = EmptyStr THEN Rejected
    ELSE
        LET date_str == raw["Date"]
            date_out == IF IsTimestamp(date_str) \/ IsDateOnly(date_str)
                        THEN FmtDate(date_str.ymd)      \* the text before the "T"
                        ELSE date_str.text
            group    == sport_src(raw)
            sport    == sport_of(group)
        IN  Ok([FixtureID |-> "GAA-" \o raw["FixtureID"],
                Date      |-> date_out,
                Time      |-> OrEmpty(Get(raw, "Time", None)),
                Sport     |-> sport,
                TeamA     |-> OrEmpty(Get(raw, "TeamA", None)),
                TeamB     |-> OrEmpty(Get(raw, "TeamB", None)),
                TV        |-> OrEmpty(Get(raw, "TV", None)),
                Venue     |-> OrEmpty(Get(raw, "Venue", None))])

\* the normaliser each script's normalise_all calls
Normalise(script, fx, today) ==
    CASE script = "football" -> normalise_fixture(fx)
      [] script = "rugby"    -> normalise_rugby_fixture(fx, today)
      [] script = "gaa"      -> normalise_gaa_fixture(fx)

(***************************************************************************)
(* normalise_all.  The result is [kind |-> "ok", records |-> list] or      *)
(* Raised when a normaliser raised.                                        *)
(***************************************************************************)
\* the duplicate test left out, as in a plain list comprehension
AlreadySeen_never(fid, seen_ids) == FALSE

\* "if fid in seen_ids: continue"
AlreadySeen(fid, seen_ids) == fid \in seen_ids

\* the for loop of normalise_all in the football and the rugby script
RECURSIVE DedupLoop(_, _, _, _, _)
DedupLoop(script, fixtures_raw, today, records, seen_ids) ==
    IF fixtures_raw = <<>> THEN [kind |-> "ok", records |-> records]
    ELSE LET fields == Normalise(script, Head(fixtures_raw), today)
             rest   == Tail(fixtures_raw)
         IN  CASE fields.kind = "raise" -> Raised
               [] fields.kind = "none" ->
                      DedupLoop(script, rest, today, records, seen_ids)
               [] OTHER ->
                      IF AlreadySeen(fields.fields.FixtureID, seen_ids)
                      THEN DedupLoop(script, rest, today, records, seen_ids)
                      ELSE DedupLoop(script, rest, today,
                                     Append(records, fields.fields),
                                     seen_ids \cup {fields.fields.FixtureID})

\* sync_fixtures_to_airtable.normalise_all
normalise_all_football(fixtures_raw) ==
    DedupLoop("football", fixtures_raw, 0, <<>>, {})

\* sync_rugby_to_airtable.normalise_all
normalise_all_rugby(fixtures_raw, today) ==
    DedupLoop("rugby", fixtures_raw, today, <<>>, {})

\* sync_gaa_to_airtable.normalise_all: [f for f in (normalise_gaa_fixture(r) ...) if f]
RECURSIVE normalise_all_gaa(_)
normalise_all_gaa(fixtures_raw) ==
    IF fixtures_raw = <<>> THEN [kind |-> "ok", records |-> <<>>]
    ELSE LET f    == normalise_gaa_fixture(Head(fixtures_raw))
             rest == normalise_all_gaa(Tail(fixtures_raw))
         IN  IF f.kind = "none" THEN rest
             ELSE [kind |-> "ok", records |-> <<f.fields>> \o rest.records]

normalise_all(script, fixtures_raw, today) ==
    CASE script = "football" -> normalise_all_football(fixtures_raw)
      [] script = "rugby"    -> normalise_all_rugby(fixtures_raw, today)
      [] script = "gaa"      -> normalise_all_gaa(fixtures_raw)

(***************************************************************************)
(* The reconciler: the partition loop of upsert_to_airtable (the same loop *)
(* in the three scripts).  existing is the resolver's dict FixtureID ->    *)
(* row handle.                                                             *)
(***************************************************************************)
\* the copy sent as it is, the pop left out
update_fields_keeps_tv(r) == r

\* the pop given another key
update_fields_pops_venue(r) == [k \in DOMAIN r \ {"Venue"} |-> r[k]]

\* update_fields = r.copy(); update_fields.pop("TV", None)
update_fields(r) == [k \in DOMAIN r \ {"TV"} |-> r[k]]

\* the membership test made on the dict's values (row handles), not its keys
InExisting_values(fid, existing) == fid \in {existing[k] : k \in DOMAIN existing}

\* "if fid in existing"
InExisting(fid, existing) == fid \in DOMAIN existing

\* the update entry given the handle of some resolved row, not that of fid
RECURSIVE PlanLoop_any_handle(_, _, _, _)
PlanLoop_any_handle(records, existing, to_create, to_update) ==
    IF records = <<>> THEN [kind |-> "ok", to_create |-> to_create, to_update |-> to_update]
    ELSE LET r   == Head(records)
             fid == r["FixtureID"]
         IN  IF InExisting(fid, existing)
             THEN PlanLoop_any_handle(Tail(records), existing, to_create,
                      Append(to_update,
                             [id |-> existing[CHOOSE k \in DOMAIN existing : k # fid
                                                  \/ DOMAIN existing = {fid}],
                              fields |-> update_fields(r)]))
             ELSE PlanLoop_any_handle(Tail(records), existing, Append(to_create, r),
                                      to_update)

RECURSIVE PlanLoop(_, _, _, _)
PlanLoop(records, existing, to_create, to_update) ==
    IF records = <<>> THEN [kind |-> "ok", to_create |-> to_create, to_update |-> to_update]
    ELSE LET r   == Head(records)
             fid == r["FixtureID"]
         IN  IF InExisting(fid, existing)
             THEN PlanLoop(Tail(records), existing, to_create,
                           Append(to_update, [id |-> existing[fid],
                                              fields |-> update_fields(r)]))
             ELSE PlanLoop(Tail(records), existing, Append(to_create, r), to_update)

BuildPlans(records, existing) == PlanLoop(records, existing, <<>>, <<>>)

(***************************************************************************)
(* Inputs: the raw payloads the sources can hand to the normalisers.       *)
(***************************************************************************)
TS1    == [ymd |-> <<2025, 7, 27>>, hm |-> <<13, 0>>, off |-> "+00:00"]
TS2    == [ymd |-> <<2025, 7, 31>>, hm |-> <<23, 30>>, off |-> "Z"]
TSFar  == [ymd |-> <<2025, 12, 31>>, hm |-> <<15, 0>>, off |-> "+00:00"]
DOnly  == [ymd |-> <<2025, 7, 27>>]
TS3    == [ymd |-> <<2025, 8, 2>>, hm |-> <<20, 15>>, off |-> "-05:00"]
BadTxt == [text |-> "postponed"]

\* datetime.now(LOCAL_TZ).date() of a run
Todays == {DayNumber(<<2025, 7, 20>>)}

\* an API-Football fixture, with _sport_label attached by fetch_all_fixtures
Fx(fixture) ==
    ("_sport_label" :> "LoI") @@
    [fixture |-> fixture,
     teams   |-> [home |-> [name |-> "Bohemians"], away |-> [name |-> "Derry City"]]]

FootballPayloads ==
    { Fx([id |-> 1, date |-> TS1, venue |-> [name |-> "Dalymount Park"]]),
      Fx([id |-> 1, date |-> TS2, venue |-> [name |-> "Aviva Stadium"]]),
      Fx([id |-> 2, date |-> TS1, venue |-> [name |-> "Aviva Stadium"]]),
      Fx([date |-> TS1, venue |-> [name |-> "Dalymount Park"]]),
      Fx([id |-> 2, date |-> EmptyStr]),
      Fx([id |-> 2, date |-> BadTxt]),
      Fx([id |-> 2, date |-> TSFar]),
      ("_sport_label" :> "LoI") @@
      [fixture |-> [id |-> 2, date |-> TS3, venue |-> [name |-> None]],
       teams   |-> [home |-> [name |-> None]]] }

\* a rugby-live-data fixture, with _sport_label attached by fetch_rugby_fixtures
Rg(fx) == ("_sport_label" :> "Rugby") @@ fx

RugbyPayloads ==
    { Rg([id |-> 1, date |-> TS1, home |-> "Leinster", away |-> "Munster",
          venue |-> "Aviva Stadium"]),
      Rg([id |-> 1, date |-> TS2, home |-> "Leinster", away |-> "Munster",
          venue |-> "Thomond Park"]),
      Rg([id |-> 2, date |-> TS1, home |-> "Ulster", away |-> "Connacht", venue |-> ""]),
      Rg([id |-> 0, date |-> TS1, home |-> "Ulster", away |-> "Connacht", venue |-> ""]),
      Rg([id |-> 2, date |-> TSFar, home |-> "Ulster", away |-> "Connacht",
          venue |-> "Ravenhill"]),
      Rg([id |-> 2, date |-> BadTxt, home |-> "Ulster", away |-> "Connacht",
          venue |-> "Ravenhill"]),
      Rg([id |-> 3, date |-> TS3, home |-> None, away |-> "Connacht"]) }

\* an item of the GAA spider's matches.json with the competition label given
GaaLabelled(label) ==
    [FixtureID |-> "3", Date |-> TS3, Time |-> "20:15", Sport |-> label,
     TeamA |-> "Tyrone", TeamB |-> "Armagh", Venue |-> "Healy Park", TV |-> None]

\* an item of the GAA spider's matches.json
GaaPayloads ==
    { [FixtureID |-> "1", Date |-> TS1, Time |-> "14:00",
       Sport |-> <<"Senior", "Football", "Championship">>,
       TeamA |-> "Dublin", TeamB |-> "Kerry", Venue |-> "Croke Park", TV |-> "RTE"],
      [FixtureID |-> "1", Date |-> DOnly, Time |-> None,
       Sport |-> <<"Senior", "Hurling", "Championship">>,
       TeamA |-> "Cork", TeamB |-> "Clare", Venue |-> "Semple Stadium", TV |-> "TG4"],
      [FixtureID |-> "2", Date |-> TS2, Time |-> "19:30",
       TeamA |-> "Mayo", TeamB |-> "Galway", Venue |-> None, TV |-> None],
      [FixtureID |-> "", Date |-> TS1, Time |-> "14:00",
       TeamA |-> "Mayo", TeamB |-> "Galway", Venue |-> None, TV |-> None],
      [FixtureID |-> "2", Date |-> EmptyStr, Time |-> "14:00",
       TeamA |-> "Mayo", TeamB |-> "Galway", Venue |-> None, TV |-> None],
      [Date |-> TS1, Time |-> "14:00", TeamA |-> "Mayo", TeamB |-> "Galway"],
      [FixtureID |-> "2", Date |-> BadTxt, Time |-> "14:00",
       TeamA |-> "Mayo", TeamB |-> "Galway", Venue |-> None, TV |-> None],
      GaaLabelled(<<"Hurling", "and", "Football", "Finals">>),
      GaaLabelled(<<"SENIOR", "FOOTBALL">>),
      GaaLabelled(<<"HURLING", "Championship">>),
      GaaLabelled(<<"Camogie", "Championship">>),
      GaaLabelled(<<>>),
      GaaLabelled(NullLabel) }

Payloads(script) ==
    CASE script = "football" -> FootballPayloads
      [] script = "rugby"    -> RugbyPayloads
      [] script = "gaa"      -> GaaPayloads

\* canonical records and resolver dicts handed to the reconciler
PlanRecords ==
    LET t == CHOOSE d \in Todays : TRUE
    IN  { Normalise("football", p, t).fields :
              p \in {q \in FootballPayloads : Normalise("football", q, t).kind = "ok"} }
        \cup
        { Normalise("rugby", p, t).fields :
              p \in {q \in RugbyPayloads : Normalise("rugby", q, t).kind = "ok"
                                           /\ q["id"] = 2} }
        \cup
        { Normalise("gaa", p, t).fields :
              p \in {q \in GaaPayloads : Normalise("gaa", q, t).kind = "ok"
                                         /\ q["FixtureID"] = "1"} }

PlanIds == {r["FixtureID"] : r \in PlanRecords}

Handles == {"recA", "recB"}

ExistingDicts == UNION {[ids -> Handles] : ids \in SUBSET PlanIds}

(***************************************************************************)
(* api_get_with_retry (identical in the football and the rugby script).    *)
(* A call is the record                                                    *)
(*   state     "running" | "returned" (return resp) | "raised"             *)
(*             (raise_for_status raised) | "none" (return None)            *)
(*   attempt   the loop variable, 1..max_retries                           *)
(*   requests  requests.get calls issued so far                            *)
(*   sleeps    the time.sleep durations so far, in seconds                 *)
(***************************************************************************)
Retryable == {429, 500, 502, 503, 504}

NewCall == [state |-> "running", attempt |-> 1, requests |-> 0, sleeps |-> <<>>]

\* "resp.status_code in (429, 500, 502, 503, 504) and attempt < max_retries"
ShouldRetry(status, attempt) == status \in Retryable /\ attempt < MaxRetries

\* resp.raise_for_status(): HTTPError for 4xx and 5xx
RaisesForStatus(status) == 400 <= status /\ status < 600

\* one iteration of the for loop: the request is issued and answered with status
ApiGetAfter(c, status) ==
    LET got == [c EXCEPT !.requests = @ + 1]
    IN  IF status = 200 THEN [got EXCEPT !.state = "returned"]
        ELSE IF ShouldRetry(status, c.attempt)
        THEN [got EXCEPT !.sleeps = Append(@, 2 ^ c.attempt), !.attempt = @ + 1]
        ELSE IF RaisesForStatus(status) THEN [got EXCEPT !.state = "raised"]
        ELSE IF c.attempt < MaxRetries THEN [got EXCEPT !.attempt = @ + 1]
        ELSE [got EXCEPT !.state = "none"]

(***************************************************************************)
(* The remote table.  A row is [id |-> handle, fields |-> dict].           *)
(***************************************************************************)
\* a row curated by hand before any run of the model
CuratedRow ==
    [id |-> "rec0",
     fields |-> [FixtureID |-> "1", Date |-> "2025-07-27", Time |-> "14:00",
                 Sport |-> "LoI", TeamA |-> "Bohemians", TeamB |-> "Derry City",
                 TV |-> "BBC", Venue |-> "Dalymount Park"]]

InitStore == <<CuratedRow>>

\* the rows a filterByFormula OR({FixtureID}='..', ...) query over ids matches
Matching(rows, ids) == SelectSeq(rows, LAMBDA row : row.fields["FixtureID"] \in ids)

\* the page sizes the store may cut a listing into
PageSizes == {1, 100}

\* one page of a listing: the request carries offset (rows already returned, 0 when
\* the parameter is absent); the answer carries the next offset, 0 when absent
Page(rows, ids, offset, size) ==
    LET rest == Drop(Matching(rows, ids), offset)
    IN  [records |-> Take(rest, size),
         offset  |-> IF Len(rest) > size THEN offset + size ELSE 0]

\* POST: one new row per field set, each with a fresh handle
RECURSIVE Created(_, _)
Created(batch, n) ==
    IF batch = <<>> THEN <<>>
    ELSE <<[id |-> "rec" \o ToString(n), fields |-> Head(batch)]>>
         \o Created(Tail(batch), n + 1)

\* PATCH of one row: the fields sent replace the row's, the others are kept
Patched(row, fields) ==
    [row EXCEPT !.fields = [k \in DOMAIN row.fields \cup DOMAIN fields |->
                               IF k \in DOMAIN fields THEN fields[k] ELSE row.fields[k]]]

\* PATCH of a batch of {id, fields} entries, applied in order
RECURSIVE Updated(_, _)
Updated(rows, batch) ==
    IF batch = <<>> THEN rows
    ELSE Updated([i \in DOMAIN rows |->
                     IF rows[i].id = Head(batch).id
                     THEN Patched(rows[i], Head(batch).fields) ELSE rows[i]],
                 Tail(batch))

\* a write is acknowledged with one of these codes
WriteOk(status) == status \in {200, 201}

\* the answers of the store that the runs of the state machine meet
LookupStatuses == {200, 204, 404, 429}
WriteStatuses  == {200, 422, 429}

(***************************************************************************)
(* A sync run: main() of one script, as a sequence of steps.               *)
(*   pc        "idle" | "normalise" | "lookup" | "plan" | "create" |       *)
(*             "update" | "done" (main returned) | "crashed" (an exception *)
(*             left main)                                                  *)
(*   raw       the payloads fetched; records: normalise_all's result       *)
(*   chunks    the identity chunks still to look up; offset: the           *)
(*             continuation token of the listing in progress (0: none)     *)
(*   existing  the resolver's dict; to_create, to_update: the plans        *)
(*   batches   the batches of the current plan still to submit             *)
(*   call      the api_get_with_retry call in progress                     *)
(*   last      the last request to the store that ended: its kind, final   *)
(*             status, attempts made, sleeps, and whether it was given up  *)
(*   allOk     every request of this run to the store was answered with    *)
(*             success so far                                              *)
(*   n         runs started so far                                         *)
(*   env       which of the environment variables the script reads are set *)
(*   sent      the requests sent to the store in this run, in order: kind, *)
(*             the identities or entries carried, answered with success    *)
(***************************************************************************)
\* the processes that may run syncs
Procs == {1, 2}

\* os.getenv of the three keys: TRUE when set
FullEnv == [AIRTABLE_API_KEY |-> TRUE, AIRTABLE_BASE_ID |-> TRUE, RAPIDAPI_KEY |-> TRUE]

NoRequest == [kind |-> "none", status |-> 0, attempts |-> 0, sleeps |-> <<>>,
              failed |-> FALSE]

IdleRun == [pc |-> "idle", script |-> "none", today |-> 0, raw |-> <<>>,
            records |-> <<>>, chunks |-> <<>>, offset |-> 0, existing |-> EmptyDict,
            to_create |-> <<>>, to_update |-> <<>>, batches |-> <<>>,
            call |-> NewCall, last |-> NoRequest, allOk |-> TRUE, n |-> 0,
            env |-> FullEnv, sent |-> <<>>]

\* a request leaves for the store
Sent(r, kind, batch, ok) ==
    [r EXCEPT !.sent = Append(@, [kind |-> kind, batch |-> batch, ok |-> ok])]

\* the table URL is built from AIRTABLE_BASE_ID: without it the path names the
\* base "None", which the store does not have
LookupAnswers(r) == IF r.env.AIRTABLE_BASE_ID THEN LookupStatuses ELSE {404}
WriteAnswers(r)  == IF r.env.AIRTABLE_BASE_ID THEN WriteStatuses ELSE {404}

NoPrev == [script |-> "none", raw |-> <<>>, today |-> 0, allOk |-> FALSE,
           pc |-> "idle", to_create |-> <<>>, to_update |-> <<>>]

\* the payloads a run of the state machine fetches
RunPayloads(script) ==
    CASE script = "football" ->
             {p \in FootballPayloads : Get(p["fixture"], "date", TS1) \in {TS1, TS2, BadTxt}}
      [] script = "rugby" ->
             {p \in RugbyPayloads : Get(p, "id", 0) # 0 /\ p["date"] \in {TS1, TS2}}
      [] script = "gaa" ->
             {p \in GaaPayloads : Get(p, "FixtureID", "") # ""
                                   /\ p["Date"] \in {TS1, TS2, DOnly}}

\* d[k] = v
DictSet(d, k, v) == [x \in DOMAIN d \cup {k} |-> IF x = k THEN v ELSE d[x]]

\* list(fixture_ids), fixture_ids = {r["FixtureID"] for r in records}: the
\* distinct identities of records[lo..hi] in one iteration order of the set,
\* that of first occurrence
RECURSIVE SetToSeq(_, _, _)
SetToSeq(records, lo, hi) ==
    IF lo > hi THEN <<>>
    ELSE IF lo = hi
    THEN IF \E j \in 1..(lo - 1) : records[j]["FixtureID"] = records[lo]["FixtureID"]
         THEN <<>> ELSE <<records[lo]["FixtureID"]>>
    ELSE LET mid == (lo + hi) \div 2
         IN  SetToSeq(records, lo, mid) \o SetToSeq(records, mid + 1, hi)

\* the loop over data.get("records", []) of airtable_get_existing_ids:
\* football and rugby take str(fields.get("FixtureID")), GAA tests the value first
RECURSIVE Absorb(_, _, _)
Absorb(script, existing, records) ==
    IF records = <<>> THEN existing
    ELSE LET rec == Head(records)
             got == Get(rec.fields, "FixtureID", None)
             fid == IF got = None /\ script # "gaa" THEN "None" ELSE got
         IN  Absorb(script,
                    IF Truthy(fid) THEN DictSet(existing, fid, rec.id) ELSE existing,
                    Tail(records))

FixtureIds(records) == {records[i]["FixtureID"] : i \in DOMAIN records}

\* the run moves on to the next chunk, or to the partition loop after the last
NextChunk(r) ==
    [r EXCEPT !.chunks = Tail(@), !.offset = 0, !.call = NewCall,
              !.pc = IF Len(r.chunks) > 1 THEN "lookup" ELSE "plan"]

\* main(): credentials are set and the fetch returned fixtures_raw
StartRun(p) ==
    /\ run[p].pc = "idle"
    /\ run[p].n < MaxRuns
    /\ \E script \in Scripts, today \in Todays :
         \E raw \in SeqsUpTo(RunPayloads(script), MaxRaw) :
            run' = [run EXCEPT ![p] =
                       [IdleRun EXCEPT !.pc = "normalise", !.script = script,
                                       !.today = today, !.raw = raw, !.n = run[p].n + 1]]
    /\ UNCHANGED <<store, nextId, prev, call, fn, orch>>

\* normalise_all, then the head of upsert_to_airtable: return when there are no
\* records, otherwise fixture_ids is chunked for the resolver.  The GAA main()
\* returns before normalising when nothing was loaded.
\* upsert_to_airtable(records) up to the resolver's first request
EnterLookup(r, records) ==
    [r EXCEPT !.pc = "lookup", !.records = records,
              !.chunks = chunked(SetToSeq(records, 1, Len(records)), LookupChunk)]

UpsertEntry(r) ==
    LET out == normalise_all(r.script, r.raw, r.today)
    IN  IF out.kind = "raise" THEN [r EXCEPT !.pc = "crashed"]
        ELSE IF out.records = <<>> THEN [r EXCEPT !.pc = "done"]
        ELSE IF /\ r.script = "gaa"       \* the GAA main() tests both keys here
                /\ ~(r.env.AIRTABLE_API_KEY /\ r.env.AIRTABLE_BASE_ID)
        THEN [r EXCEPT !.pc = "done", !.records = out.records]
        ELSE EnterLookup(r, out.records)

NormaliseRun(p) ==
    /\ run[p].pc = "normalise"
    /\ run' = [run EXCEPT ![p] = UpsertEntry(run[p])]
    /\ UNCHANGED <<store, nextId, prev, call, fn, orch>>

\* football airtable_get_existing_ids: one request of api_get_with_retry for the
\* current page of the current chunk
LookupFootball(p) ==
    /\ run[p].pc = "lookup"
    /\ run[p].script = "football"
    /\ \E status \in LookupAnswers(run[p]), size \in PageSizes :
         LET r    == Sent(run[p], "lookup", Head(run[p].chunks), status = 200)
             c    == ApiGetAfter(r.call, status)
             page == Page(store, Range(Head(r.chunks)), r.offset, size)
             end  == [kind |-> "lookup", status |-> status, attempts |-> c.requests,
                      sleeps |-> c.sleeps, failed |-> c.state # "returned"]
         IN  run' = [run EXCEPT ![p] =
                CASE c.state = "running" -> [r EXCEPT !.call = c, !.allOk = FALSE]
                  [] c.state = "raised" ->
                        [r EXCEPT !.pc = "crashed", !.call = c, !.last = end,
                                  !.allOk = FALSE]
                  [] c.state = "none" ->        \* "if not resp: break"
                        [NextChunk(r) EXCEPT !.last = end, !.allOk = FALSE]
                  [] c.state = "returned" ->
                        LET got == [r EXCEPT !.existing = Absorb("football", @, page.records),
                                             !.last = end]
                        IN  IF page.offset # 0
                            THEN [got EXCEPT !.offset = page.offset, !.call = NewCall]
                            ELSE NextChunk(got)]
    /\ UNCHANGED <<store, nextId, prev, call, fn, orch>>

\* rugby and GAA airtable_get_existing_ids: one requests.get per chunk; the
\* records of the answer are taken and its offset is not read
LookupDirect(p) ==
    /\ run[p].pc = "lookup"
    /\ run[p].script \in {"rugby", "gaa"}
    /\ \E status \in LookupAnswers(run[p]), size \in PageSizes :
         LET r    == Sent(run[p], "lookup", Head(run[p].chunks), status = 200)
             page == Page(store, Range(Head(r.chunks)), 0, size)
             end  == [kind |-> "lookup", status |-> status, attempts |-> 1,
                      sleeps |-> <<>>, failed |-> status # 200]
         IN  run' = [run EXCEPT ![p] =
                IF status # 200
                THEN [NextChunk(r) EXCEPT !.last = end, !.allOk = FALSE]
                ELSE NextChunk([r EXCEPT !.existing = Absorb(r.script, @, page.records),
                                         !.last = end])]
    /\ UNCHANGED <<store, nextId, prev, call, fn, orch>>

\* the partition loop of upsert_to_airtable, up to the first write call
PlanRun(p) ==
    /\ run[p].pc = "plan"
    /\ LET r     == run[p]
           plans == BuildPlans(r.records, r.existing)
       IN  run' = [run EXCEPT ![p] =
                      [r EXCEPT !.to_create = plans.to_create,
                                !.to_update = plans.to_update,
                                !.pc = IF plans.to_create # <<>> THEN "create" ELSE "update",
                                !.batches = IF plans.to_create # <<>>
                                            THEN chunked(plans.to_create, WriteBatch)
                                            ELSE chunked(plans.to_update, WriteBatch)]]
    /\ UNCHANGED <<store, nextId, prev, call, fn, orch>>

\* the update call made the alternative of the create call ("elif to_update")
AfterCreate_elif(r) ==
    IF Len(r.batches) > 1 THEN [r EXCEPT !.batches = Tail(@)]
    ELSE [r EXCEPT !.pc = "done", !.batches = <<>>]

\* after the create batches: "if to_update: airtable_batch_update(to_update)"
AfterCreate(r) ==
    IF Len(r.batches) > 1 THEN [r EXCEPT !.batches = Tail(@)]
    ELSE IF r.to_update # <<>>
    THEN [r EXCEPT !.pc = "update", !.batches = chunked(r.to_update, WriteBatch)]
    ELSE [r EXCEPT !.pc = "done", !.batches = <<>>]

\* the writer looking at the table again before it creates: the records that
\* have a row by now are left out of the request
CreateBatch_checked(p) ==
    /\ run[p].pc = "create"
    /\ run[p].script \in {"football", "gaa"}
    /\ \E status \in WriteAnswers(run[p]) :
         LET r     == Sent(run[p], "create", Head(run[p].batches), WriteOk(status))
             batch == SelectSeq(Head(r.batches),
                                LAMBDA rec : \A i \in DOMAIN store :
                                    store[i].fields["FixtureID"] # rec["FixtureID"])
         IN  /\ store' = IF WriteOk(status) THEN store \o Created(batch, nextId) ELSE store
             /\ nextId' = IF WriteOk(status) THEN nextId + Len(batch) ELSE nextId
             /\ run' = [run EXCEPT ![p] =
                           [AfterCreate(r) EXCEPT
                               !.last = [kind |-> "create", status |-> status,
                                         attempts |-> 1, sleeps |-> <<>>,
                                         failed |-> ~WriteOk(status)],
                               !.allOk = r.allOk /\ WriteOk(status)]]
    /\ UNCHANGED <<prev, call, fn, orch>>

\* airtable_batch_create (football, GAA): requests.post of one batch
CreateBatch(p) ==
    /\ run[p].pc = "create"
    /\ run[p].script \in {"football", "gaa"}
    /\ \E status \in WriteAnswers(run[p]) :
         LET r     == Sent(run[p], "create", Head(run[p].batches), WriteOk(status))
             batch == Head(r.batches)
         IN  /\ store' = IF WriteOk(status) THEN store \o Created(batch, nextId) ELSE store
             /\ nextId' = IF WriteOk(status) THEN nextId + Len(batch) ELSE nextId
             /\ run' = [run EXCEPT ![p] =
                           [AfterCreate(r) EXCEPT
                               !.last = [kind |-> "create", status |-> status,
                                         attempts |-> 1, sleeps |-> <<>>,
                                         failed |-> ~WriteOk(status)],
                               !.allOk = r.allOk /\ WriteOk(status)]]
    /\ UNCHANGED <<prev, call, fn, orch>>

\* airtable_batch_update (football, GAA): requests.patch of one batch
UpdateBatch(p) ==
    /\ run[p].pc = "update"
    /\ run[p].script \in {"football", "gaa"}
    /\ \E status \in WriteAnswers(run[p]) :
         LET r     == Sent(run[p], "update", Head(run[p].batches), WriteOk(status))
             batch == Head(r.batches)
         IN  /\ store' = IF WriteOk(status) THEN Updated(store, batch) ELSE store
             /\ run' = [run EXCEPT ![p] =
                           [r EXCEPT
                               !.batches = Tail(@),
                               !.pc = IF Len(r.batches) > 1 THEN "update" ELSE "done",
                               !.last = [kind |-> "update", status |-> status,
                                         attempts |-> 1, sleeps |-> <<>>,
                                         failed |-> ~WriteOk(status)],
                               !.allOk = r.allOk /\ WriteOk(status)]]
    /\ UNCHANGED <<nextId, prev, call, fn, orch>>

\* rugby upsert_to_airtable calls airtable_batch_create / airtable_batch_update,
\* names the rugby script does not define (it defines airtable_create and
\* airtable_update): NameError, before any write request
RugbyWrite(p) ==
    /\ run[p].pc \in {"create", "update"}
    /\ run[p].script = "rugby"
    /\ run' = [run EXCEPT ![p].pc = "crashed"]
    /\ UNCHANGED <<store, nextId, prev, call, fn, orch>>

\* the process exits; the next run starts from a fresh interpreter
EndRun(p) ==
    /\ run[p].pc \in {"done", "crashed"}
    /\ prev' = [script |-> run[p].script, raw |-> run[p].raw, today |-> run[p].today,
                allOk |-> run[p].allOk, pc |-> run[p].pc,
                to_create |-> run[p].to_create, to_update |-> run[p].to_update]
    /\ run' = [run EXCEPT ![p] = [IdleRun EXCEPT !.n = run[p].n]]
    /\ UNCHANGED <<store, nextId, call, fn, orch>>

NoFn == [op |-> "none"]

\* sync_all_sports is not running
NoOrch == [pc |-> "off", i |-> 0, env |-> FullEnv, log |-> <<>>]

NoCall == [c |-> NewCall, responses |-> <<>>]

Init ==
    /\ store = InitStore
    /\ nextId = 1
    /\ run = [p \in Procs |-> IdleRun]
    /\ prev = NoPrev
    /\ call = NoCall
    /\ fn = NoFn
    /\ orch = NoOrch

\* runs are serialised by the external scheduler: one process runs them all
Next ==
    \/ StartRun(1)
    \/ NormaliseRun(1)
    \/ LookupFootball(1)
    \/ LookupDirect(1)
    \/ PlanRun(1)
    \/ CreateBatch(1)
    \/ UpdateBatch(1)
    \/ RugbyWrite(1)
    \/ EndRun(1)

Spec == Init /\ [][Next]_vars

(***************************************************************************)
(* Two runs started at the same time by triggers that know nothing of each *)
(* other, each with one fetched payload; their steps interleave freely.    *)
(***************************************************************************)
ConcInit ==
    /\ store = InitStore
    /\ nextId = 1
    /\ \E script \in [Procs -> Scripts], today \in Todays :
         \E raw \in [Procs -> UNION {RunPayloads(sc) : sc \in Scripts}] :
            /\ \A p \in Procs : raw[p] \in RunPayloads(script[p])
            /\ run = [p \in Procs |->
                         [IdleRun EXCEPT !.pc = "normalise", !.script = script[p],
                                         !.today = today, !.raw = <<raw[p]>>,
                                         !.n = MaxRuns]]
    /\ prev = NoPrev
    /\ call = NoCall
    /\ fn = NoFn
    /\ orch = NoOrch

ConcNext ==
    \E p \in Procs :
        \/ NormaliseRun(p)
        \/ LookupFootball(p)
        \/ LookupDirect(p)
        \/ PlanRun(p)
        \/ CreateBatch(p)
        \/ UpdateBatch(p)
        \/ RugbyWrite(p)
        \/ EndRun(p)

SpecConc == ConcInit /\ [][ConcNext]_vars

(***************************************************************************)
(* One run of main() under any environment.                                *)
(***************************************************************************)
Envs == [AIRTABLE_API_KEY : BOOLEAN, AIRTABLE_BASE_ID : BOOLEAN, RAPIDAPI_KEY : BOOLEAN]

\* the head of main(): the football and the rugby script return unless
\* AIRTABLE_API_KEY and RAPIDAPI_KEY are set and fetch otherwise; the GAA script
\* loads its file first and looks at the keys after normalising
StartAny(p) ==
    /\ run[p].pc = "idle"
    /\ run[p].n = 0
    /\ \E script \in Scripts, today \in Todays, env \in Envs :
         LET r == [IdleRun EXCEPT !.script = script, !.today = today, !.env = env,
                                  !.n = run[p].n + 1]
         IN  IF script \in {"football", "rugby"}
                /\ ~(env.AIRTABLE_API_KEY /\ env.RAPIDAPI_KEY)
             THEN run' = [run EXCEPT ![p] = [r EXCEPT !.pc = "done"]]
             ELSE \E raw \in SeqsUpTo(RunPayloads(script), MaxRaw) :
                     run' = [run EXCEPT ![p] = [r EXCEPT !.pc = "normalise", !.raw = raw]]
    /\ UNCHANGED <<store, nextId, prev, call, fn, orch>>

PreNext ==
    \/ StartAny(1)
    \/ NormaliseRun(1)
    \/ LookupFootball(1)
    \/ LookupDirect(1)
    \/ PlanRun(1)
    \/ CreateBatch(1)
    \/ UpdateBatch(1)
    \/ RugbyWrite(1)
    \/ EndRun(1)

SpecPre == Init /\ [][PreNext]_vars

(***************************************************************************)
(* sync_all_sports: main() runs the scripts of SCRIPTS one after another,  *)
(* each as a child process (process 1 of the model) that subprocess.run    *)
(* waits for.  The child inherits the environment of the orchestrator and  *)
(* fetches at most one payload.  orch is                                   *)
(*   pc    "loop" (in the for loop, no child), "waiting" (inside           *)
(*         subprocess.run), "complete" (the last print is done)            *)
(*   i     the index into SCRIPTS of the script run next / being run       *)
(*   env   the environment of the orchestrator process                     *)
(*   log   what happened so far: the start and the exit of each child      *)
(***************************************************************************)
SCRIPTS == <<"football", "rugby", "gaa">>

AllInit ==
    /\ store = InitStore
    /\ nextId = 1
    /\ run = [p \in Procs |-> IdleRun]
    /\ prev = NoPrev
    /\ call = NoCall
    /\ fn = NoFn
    /\ \E env \in Envs : orch = [pc |-> "loop", i |-> 1, env |-> env, log |-> <<>>]

\* run_script up to the start of the child: the child either dies before it has
\* normalised anything (no script under BASE_DIR, or the fetch raises) or runs
\* the head of its main()
run_script_launch ==
    /\ orch.pc = "loop"
    /\ orch.i <= Len(SCRIPTS)
    /\ LET script == SCRIPTS[orch.i]
       IN  \E today \in Todays, dies \in BOOLEAN :
             LET r == [IdleRun EXCEPT !.script = script, !.today = today,
                                      !.env = orch.env, !.n = orch.i]
             IN  IF dies
                 THEN run' = [run EXCEPT ![1] = [r EXCEPT !.pc = "crashed"]]
                 ELSE IF script \in {"football", "rugby"}
                         /\ ~(orch.env.AIRTABLE_API_KEY /\ orch.env.RAPIDAPI_KEY)
                 THEN run' = [run EXCEPT ![1] = [r EXCEPT !.pc = "done"]]
                 ELSE \E raw \in SeqsUpTo(RunPayloads(script), 1) :
                         run' = [run EXCEPT ![1] =
                                    [r EXCEPT !.pc = "normalise", !.raw = raw]]
    /\ orch' = [orch EXCEPT !.pc = "waiting",
                            !.log = Append(@, [ev |-> "start", script |-> SCRIPTS[orch.i]])]
    /\ UNCHANGED <<store, nextId, prev, call, fn>>

\* the child has exited: an exception of the child raised in the orchestrator,
\* as subprocess.run(..., check=True) does
AfterExit_check(failed) ==
    IF failed THEN [orch EXCEPT !.pc = "aborted"]
    ELSE [orch EXCEPT !.pc = "loop", !.i = @ + 1]

\* the child has exited: subprocess.run returns the CompletedProcess whatever
\* the exit code, stdout is printed, stderr too when there is any, and the for
\* loop goes on
AfterExit(failed) == [orch EXCEPT !.pc = "loop", !.i = @ + 1]

\* subprocess.run returns when the child has exited
run_script_return ==
    /\ orch.pc = "waiting"
    /\ run[1].pc \in {"done", "crashed"}
    /\ LET failed == run[1].pc = "crashed"
       IN  orch' = [AfterExit(failed) EXCEPT
                       !.log = Append(orch.log, [ev |-> "exit", script |-> run[1].script,
                                                 failed |-> failed])]
    /\ prev' = [script |-> run[1].script, raw |-> run[1].raw, today |-> run[1].today,
                allOk |-> run[1].allOk, pc |-> run[1].pc,
                to_create |-> run[1].to_create, to_update |-> run[1].to_update]
    /\ run' = [run EXCEPT ![1] = [IdleRun EXCEPT !.n = run[1].n]]
    /\ UNCHANGED <<store, nextId, call, fn>>

\* the for loop is over: print("=== All Scripts Complete ===")
main_complete ==
    /\ orch.pc = "loop"
    /\ orch.i > Len(SCRIPTS)
    /\ orch' = [orch EXCEPT !.pc = "complete"]
    /\ UNCHANGED <<store, nextId, run, prev, call, fn>>

AllNext ==
    \/ run_script_launch
    \/ NormaliseRun(1)
    \/ LookupFootball(1)
    \/ LookupDirect(1)
    \/ PlanRun(1)
    \/ CreateBatch(1)
    \/ UpdateBatch(1)
    \/ RugbyWrite(1)
    \/ run_script_return
    \/ main_complete

\* the orchestrator and its child are scheduled and every request is answered
SpecAll == AllInit /\ [][AllNext]_vars /\ WF_vars(AllNext)

(***************************************************************************)
(* Large runs: n fixtures with the ids 1..n, of which the first e have a   *)
(* row in the table from an earlier sync (other venue, TV set since).      *)
(***************************************************************************)
BulkPayload(script, i) ==
    CASE script = "football" ->
             Fx([id |-> i, date |-> TS1, venue |-> [name |-> "Aviva Stadium"]])
      [] script = "rugby" ->
             Rg([id |-> i, date |-> TS1, home |-> "Leinster", away |-> "Munster",
                 venue |-> "Aviva Stadium"])
      [] script = "gaa" ->
             [FixtureID |-> ToString(i), Date |-> TS1, Time |-> "14:00",
              Sport |-> <<"Senior", "Football", "Championship">>,
              TeamA |-> "Dublin", TeamB |-> "Kerry", Venue |-> "Croke Park", TV |-> "RTE"]

BulkRaw(script, n) == [i \in 1..n |-> BulkPayload(script, i)]

\* the row an earlier sync created for a record, its venue changed since at the
\* source and its TV filled in by hand
StaleRow(rec, i) ==
    [id |-> "rec" \o ToString(i),
     fields |-> [rec EXCEPT !["Venue"] = "Old Ground", !["TV"] = "BBC"]]

BulkStore(records, e) == [i \in 1..e |-> StaleRow(records[i], i)]

\* what normalise_all returns for these payloads: every one is valid and the ids
\* are distinct, so each gives its record, in order
BulkRecords(script, today, n) ==
    [i \in 1..n |-> Normalise(script, BulkPayload(script, i), today).fields]

\* main() up to the call of airtable_get_existing_ids
BulkRun(script, today, n) ==
    EnterLookup([IdleRun EXCEPT !.script = script, !.today = today,
                                !.raw = BulkRaw(script, n), !.n = 1],
                BulkRecords(script, today, n))

\* the sizes of the identity sets handed to the resolver
ResolveSizes == {n \in 1..MaxIds : n % LookupChunk \in {0, 1, 23} \/ n = MaxIds}

(***************************************************************************)
(* airtable_get_existing_ids on its own, from its call to its return.      *)
(***************************************************************************)
ResolveInit ==
    /\ \E script \in Scripts, today \in Todays, n \in ResolveSizes :
         \E e \in 0..MaxRows :
            LET r == BulkRun(script, today, n)
            IN  /\ e <= n
                /\ run = [p \in Procs |-> IF p = 1 THEN r ELSE IdleRun]
                /\ store = BulkStore(r.records, e)
                /\ nextId = e + 1
    /\ prev = NoPrev
    /\ call = NoCall
    /\ fn = NoFn
    /\ orch = NoOrch

ResolveNext == LookupFootball(1) \/ LookupDirect(1)

SpecResolve == ResolveInit /\ [][ResolveNext]_vars

(***************************************************************************)
(* The writer on its own: upsert_to_airtable from the return of a lookup   *)
(* that found every row, to its end.                                       *)
(***************************************************************************)
\* the run after lookups answered 200 with every matching row, one per chunk
RECURSIVE LookedUp(_, _)
LookedUp(r, rows) ==
    IF r.pc # "lookup" THEN r
    ELSE LET chunk == Head(r.chunks)
             got   == [Sent(r, "lookup", chunk, TRUE) EXCEPT
                          !.existing = Absorb(r.script, @, Matching(rows, Range(chunk))),
                          !.last = [kind |-> "lookup", status |-> 200, attempts |-> 1,
                                    sleeps |-> <<>>, failed |-> FALSE]]
         IN  LookedUp(NextChunk(got), rows)

WriteInit ==
    /\ \E script \in Scripts, today \in Todays, n \in 1..MaxPlan :
         \E e \in {k \in 0..n : k % WriteBatch \in {0, 1, 3}} :
            LET r == BulkRun(script, today, n)
            IN  /\ store = BulkStore(r.records, e)
                /\ nextId = e + 1
                /\ run = [p \in Procs |-> IF p = 1 THEN LookedUp(r, store) ELSE IdleRun]
    /\ prev = NoPrev
    /\ call = NoCall
    /\ fn = NoFn
    /\ orch = NoOrch

WriteNext == PlanRun(1) \/ CreateBatch(1) \/ UpdateBatch(1) \/ RugbyWrite(1)

SpecWrite == WriteInit /\ [][WriteNext]_vars

(***************************************************************************)
(* api_get_with_retry on its own: one call, answered by any sequence of    *)
(* status codes.                                                           *)
(***************************************************************************)
RetryStatuses == {200, 201, 204, 301, 400, 404, 429, 500, 501, 502, 503, 504}

ApiGetAttempt ==
    /\ call.c.state = "running"
    /\ \E status \in RetryStatuses :
          call' = [c |-> ApiGetAfter(call.c, status),
                   responses |-> Append(call.responses, status)]
    /\ UNCHANGED <<store, nextId, run, prev, fn, orch>>

SpecRetry == Init /\ [][ApiGetAttempt]_vars

(***************************************************************************)
(* The pure functions on their own: normalise_all of each script applied   *)
(* to any payload list, the partition loop applied to any record list and  *)
(* any resolver dict.                                                      *)
(***************************************************************************)
Pending == [kind |-> "pending"]

FnInit ==
    /\ store = InitStore
    /\ nextId = 1
    /\ run = [p \in Procs |-> IdleRun]
    /\ prev = NoPrev
    /\ call = NoCall
    /\ orch = NoOrch
    /\ \/ \E script \in Scripts, today \in Todays :
            \E raw \in SeqsUpTo(Payloads(script), MaxFnLen) :
               fn = [op |-> "normalise_all", script |-> script, raw |-> raw,
                     today |-> today, out |-> Pending]
       \/ \E records \in SeqsUpTo(PlanRecords, MaxFnLen), existing \in ExistingDicts :
            fn = [op |-> "plan", records |-> records, existing |-> existing,
                  out |-> Pending]
       \/ \E today \in Todays :
            \E raw \in [Scripts -> UNION {Payloads(script) : script \in Scripts}] :
               /\ \A script \in Scripts : raw[script] \in Payloads(script)
               /\ fn = [op |-> "normalise", raw |-> raw, today |-> today, out |-> Pending]

ApplyNormaliseAll ==
    /\ fn.op = "normalise_all"
    /\ fn.out = Pending
    /\ fn' = [fn EXCEPT !.out = normalise_all(fn.script, fn.raw, fn.today)]
    /\ UNCHANGED <<store, nextId, run, prev, call, orch>>

ApplyPlan ==
    /\ fn.op = "plan"
    /\ fn.out = Pending
    /\ fn' = [fn EXCEPT !.out = BuildPlans(fn.records, fn.existing)]
    /\ UNCHANGED <<store, nextId, run, prev, call, orch>>

\* one payload of each source through the normaliser of its script
ApplyNormalise ==
    /\ fn.op = "normalise"
    /\ fn.out = Pending
    /\ fn' = [fn EXCEPT !.out = [kind |-> "ok",
                                 of   |-> [script \in Scripts |->
                                              Normalise(script, fn.raw[script], fn.today)]]]
    /\ UNCHANGED <<store, nextId, run, prev, call, orch>>

FnNext == ApplyNormaliseAll \/ ApplyPlan \/ ApplyNormalise

SpecFn == FnInit /\ [][FnNext]_vars

(***************************************************************************)
(* Properties.                                                             *)
(***************************************************************************)
PlanApplied == fn.op = "plan" /\ fn.out.kind = "ok"

NormaliseApplied == fn.op = "normalise_all" /\ fn.out.kind = "ok"

\* C1 (field protection): whatever the record list and the resolver dict, no
\* entry of the update plan has a TV key in its field set, and every entry of the
\* create plan has one.
C1_FieldProtection ==
    PlanApplied =>
        /\ \A i \in DOMAIN fn.out.to_update : "TV" \notin DOMAIN fn.out.to_update[i].fields
        /\ \A i \in DOMAIN fn.out.to_create : "TV" \in DOMAIN fn.out.to_create[i]

\* an incoming record with TV "TBC" is planned as an update, beside a create
C1_Witness ==
    /\ PlanApplied
    /\ fn.out.to_create # <<>>
    /\ \E i \in DOMAIN fn.records :
          /\ fn.records[i]["TV"] = "TBC"
          /\ fn.records[i]["FixtureID"] \in DOMAIN fn.existing
    /\ \E i \in DOMAIN fn.out.to_update : fn.out.to_update[i].fields["Sport"] = "Gaelic"

NoDuplicateIds(records) ==
    \A i, j \in DOMAIN records :
        records[i]["FixtureID"] = records[j]["FixtureID"] => i = j

\* C5 (identity uniqueness): in each of the three scripts the list normalise_all
\* returns holds no two records with the same FixtureID.
C5_IdentityUniqueness == NormaliseApplied => NoDuplicateIds(fn.out.records)

\* the normaliser's result for each payload, and the payloads that are the first
\* valid one of their identity
Normalised == [i \in DOMAIN fn.raw |-> Normalise(fn.script, fn.raw[i], fn.today)]

FirstOfIdentity ==
    {i \in DOMAIN fn.raw :
        /\ Normalised[i].kind = "ok"
        /\ \A j \in 1..(i - 1) :
              Normalised[j].kind = "ok" =>
                  Normalised[j].fields["FixtureID"] # Normalised[i].fields["FixtureID"]}

\* the k-th smallest element of a set of indices
Nth(S, k) == CHOOSE i \in S : Cardinality({j \in S : j <= i}) = k

\* C6 (first seen wins): the output of the deduplicating normalise_all (football,
\* rugby) is the valid records that are the first of their identity, whole and in
\* input order.
C6_FirstSeenWins ==
    (NormaliseApplied /\ fn.script \in {"football", "rugby"}) =>
        /\ Len(fn.out.records) = Cardinality(FirstOfIdentity)
        /\ \A k \in DOMAIN fn.out.records :
              fn.out.records[k] = Normalised[Nth(FirstOfIdentity, k)].fields

\* a later payload repeats an identity with another venue and is dropped
C6_Witness ==
    /\ NormaliseApplied
    /\ fn.script \in {"football", "rugby"}
    /\ Len(fn.out.records) = 2
    /\ \E i, j \in DOMAIN fn.raw :
          /\ i < j
          /\ Normalised[i].kind = "ok" /\ Normalised[j].kind = "ok"
          /\ Normalised[i].fields["FixtureID"] = Normalised[j].fields["FixtureID"]
          /\ Normalised[i].fields["Venue"] # Normalised[j].fields["Venue"]
          /\ fn.out.records[1] = Normalised[i].fields

\* C7 (reconciler partition): the create plan is the records whose FixtureID is
\* not a key of existing, the update plan has one entry per record whose
\* FixtureID is a key, carrying existing[FixtureID], both in input order, and the
\* two lengths add up to the number of records.
C7_Partition ==
    PlanApplied =>
        LET isKey(r) == r["FixtureID"] \in DOMAIN fn.existing
            notKey(r) == r["FixtureID"] \notin DOMAIN fn.existing
            upd == SelectSeq(fn.records, isKey)
            cre == SelectSeq(fn.records, notKey)
        IN  /\ fn.out.to_create = cre
            /\ Len(fn.out.to_update) = Len(upd)
            /\ \A i \in DOMAIN fn.out.to_update :
                  /\ fn.out.to_update[i].id = fn.existing[upd[i]["FixtureID"]]
                  /\ DOMAIN fn.out.to_update[i].fields \subseteq DOMAIN upd[i]
                  /\ \A k \in DOMAIN fn.out.to_update[i].fields :
                        fn.out.to_update[i].fields[k] = upd[i][k]
            /\ Len(fn.out.to_create) + Len(fn.out.to_update) = Len(fn.records)

\* three records, two of them updates of different rows, one create between them
C7_Witness ==
    /\ PlanApplied
    /\ Len(fn.records) = 3
    /\ Len(fn.out.to_create) = 1
    /\ Len(fn.out.to_update) = 2
    /\ fn.out.to_update[1].id # fn.out.to_update[2].id
    /\ fn.records[2] = fn.out.to_create[1]

\* the attempt that was answered last, and its status
Attempts == Len(call.responses)
LastStatus == call.responses[Attempts]

Is429Or5xx(status) == status = 429 \/ (500 <= status /\ status < 600)

\* C8 (retry policy): api_get_with_retry issues at most 3 requests; when the k-th
\* attempt, k < 3, is answered 429 or 5xx it sleeps 2^k seconds and goes on to the
\* next attempt; when the 3rd attempt is answered 429 or 5xx it fails with an
\* error, without a further sleep; 429, 429, 200 gives the sleeps 2, 4 and
\* returns the response.
C8_RetryPolicy ==
    /\ call.c.requests <= MaxRetries
    /\ (Attempts >= 1 /\ Attempts < MaxRetries /\ Is429Or5xx(LastStatus)) =>
           /\ call.c.state = "running"
           /\ call.c.sleeps # <<>>
           /\ call.c.sleeps[Len(call.c.sleeps)] = 2 ^ Attempts
    /\ (Attempts = MaxRetries /\ Is429Or5xx(LastStatus)) =>
           /\ call.c.state = "raised"
           /\ Len(call.c.sleeps) <= MaxRetries - 1
    /\ call.responses = <<429, 429, 200>> =>
           /\ call.c.state = "returned"
           /\ call.c.sleeps = <<2, 4>>

\* C9 (permanent errors are not retried): when the first answer is neither 200
\* nor one of 429, 500, 502, 503, 504, exactly one request is issued, nothing is
\* slept, and the call fails with an error; it never returns without a response.
C9_PermanentNotRetried ==
    (Attempts >= 1 /\ call.responses[1] \notin ({200} \cup Retryable)) =>
        /\ call.c.requests = 1
        /\ call.c.sleeps = <<>>
        /\ call.c.state = "raised"

\* C2 (broadcast is write-once): no step of any run changes the TV value of a
\* row the store already holds, and no row goes away; a TV value enters the store
\* only with the row a batch-create adds.
C2_BroadcastWriteOnce ==
    [][\A i \in DOMAIN store :
          /\ i \in DOMAIN store'
          /\ store'[i].id = store[i].id
          /\ store'[i].fields["TV"] = store[i].fields["TV"]]_vars

\* the curated row (TV "BBC") was updated by a football run whose record carries
\* TV "TBC": its venue and date are the run's, its TV is still "BBC"
C2_Witness ==
    /\ run[1].script = "football"
    /\ run[1].last.kind = "update"
    /\ ~run[1].last.failed
    /\ store[1].id = "rec0"
    /\ store[1].fields["Venue"] = "Aviva Stadium"
    /\ store[1].fields["Date"] = "2025-08-01"
    /\ store[1].fields["TV"] = "BBC"

\* C3 (at most one row per key): the store never holds two rows with the same
\* FixtureID, after any sequence of serialised runs.
C3_AtMostOneRowPerKey ==
    \A i, j \in DOMAIN store :
        store[i].fields["FixtureID"] = store[j].fields["FixtureID"] => i = j

\* C4 (idempotency): when a run repeats the previous run (same script, same input)
\* and every request of both runs to the store succeeded, its create plan is
\* empty.
C4_Idempotency ==
    LET r == run[1]
    IN  ( /\ r.pc \in {"create", "update", "done"}
          /\ r.records # <<>>
          /\ prev.script = r.script
          /\ prev.raw = r.raw
          /\ prev.today = r.today
          /\ prev.allOk
          /\ r.allOk )
        => r.to_create = <<>>

\* C10 (every call to the store is retried): a lookup chunk, create batch or
\* update batch answered 429 or 5xx is given up only after max_retries attempts,
\* with the backoff sleeps in between.
C10_EveryCallRetried ==
    \A p \in DOMAIN run :
        (run[p].last.failed /\ Is429Or5xx(run[p].last.status)) =>
            /\ run[p].last.attempts = MaxRetries
            /\ run[p].last.sleeps = <<2, 4>>

(***************************************************************************)
(* The resolver on its own (SpecResolve).                                  *)
(***************************************************************************)
\* the identities the resolver was called with
Queried == FixtureIds(run[1].records)

\* the chunks of a request log: the identities of each request that is the first
\* one for its chunk, in order
ChunkStarts(sent) == {i \in DOMAIN sent : i = 1 \/ sent[i].batch # sent[i - 1].batch}

Ceil(a, b) == (a + b - 1) \div b

\* the resolver ended with every request of chunk c answered without success
ChunkFailed(sent, c) ==
    /\ \E i \in DOMAIN sent : sent[i].batch = c
    /\ \A i \in DOMAIN sent : sent[i].batch = c => ~sent[i].ok

\* C11 (resolver fails open): a lookup that ends without success never takes the
\* run down; when the resolver has returned, every chunk of the identity set was
\* queried, and a chunk whose lookup failed contributed no identity to the mapping.
C11_ResolverFailsOpen ==
    LET r == run[1]
    IN  /\ r.pc # "crashed"
        /\ r.pc = "plan" =>
              /\ \A id \in Queried : \E i \in DOMAIN r.sent : id \in Range(r.sent[i].batch)
              /\ \A i \in DOMAIN r.sent :
                    ChunkFailed(r.sent, r.sent[i].batch) =>
                        Range(r.sent[i].batch) \cap DOMAIN r.existing = {}

\* C14 (resolver chunking): when the resolver is called its n identities are split
\* into ceil(n/50) chunks of 1 to 50 identities, all but the last of 50, each
\* identity in exactly one chunk; when it returns, the chunks it queried, in
\* order, are such a split, no chunk is queried again after another one, and the
\* rugby and GAA resolvers sent exactly one request per chunk.
IsSplit(chunks, ids) ==
    /\ Len(chunks) = Ceil(Cardinality(ids), LookupChunk)
    /\ \A i \in DOMAIN chunks :
          /\ Len(chunks[i]) >= 1
          /\ Len(chunks[i]) <= LookupChunk
          /\ i < Len(chunks) => Len(chunks[i]) = LookupChunk
    /\ \A id \in ids :
          Cardinality({i \in DOMAIN chunks : id \in Range(chunks[i])}) = 1
    /\ \A i \in DOMAIN chunks : Cardinality(Range(chunks[i])) = Len(chunks[i])

C14_ResolverChunking ==
    LET r      == run[1]
        starts == ChunkStarts(r.sent)
        asked  == [k \in 1..Cardinality(starts) |->
                      r.sent[CHOOSE i \in starts :
                                 Cardinality({j \in starts : j <= i}) = k].batch]
    IN  /\ (r.pc = "lookup" /\ r.sent = <<>>) => IsSplit(r.chunks, Queried)
        /\ r.pc = "plan" =>
              /\ IsSplit(asked, Queried)
              /\ r.script \in {"rugby", "gaa"} => Len(r.sent) = Len(asked)

\* 123 identities were resolved by the football script with three requests, for
\* chunks of 50, 50 and 23 identities
C14_Witness ==
    /\ run[1].pc = "plan"
    /\ run[1].script = "football"
    /\ Cardinality(Queried) = 123
    /\ Len(run[1].sent) = 3
    /\ Len(run[1].sent[1].batch) = 50
    /\ Len(run[1].sent[2].batch) = 50
    /\ Len(run[1].sent[3].batch) = 23

\* C15 (paginated lookup completeness): when the resolver has returned and every
\* lookup request succeeded, the mapping holds every queried identity that has a
\* row in the table, however the table's answer was cut into pages.
C15_PaginatedLookupComplete ==
    LET r == run[1]
    IN  (r.pc = "plan" /\ r.allOk) =>
            \A id \in Queried :
                (\E i \in DOMAIN store : store[i].fields["FixtureID"] = id)
                    => id \in DOMAIN r.existing

(***************************************************************************)
(* The writer on its own (SpecWrite).                                      *)
(***************************************************************************)
\* the requests of one kind in a request log, in order
Requests(sent, kind) == SelectSeq(sent, LAMBDA q : q.kind = kind)

\* the entries of a sequence of requests, one after the other
RECURSIVE Entries(_)
Entries(reqs) == IF reqs = <<>> THEN <<>> ELSE Head(reqs).batch \o Entries(Tail(reqs))

\* the row with a given handle
RowOf(handle) == store[CHOOSE i \in DOMAIN store : store[i].id = handle]

\* C12 (partial-batch failure): in a run in which a create or update request was
\* answered without success, the run does not stop on it (it is never taken
\* down and a batch still to submit is always the next step); at its end every
\* batch of the create plan and then every batch of the update plan was
\* submitted exactly once; the records of a failed create batch have no row and
\* the rows of a failed update batch are as they were.
C12_PartialBatchFailure ==
    LET r       == run[1]
        creates == Requests(r.sent, "create")
        updates == Requests(r.sent, "update")
    IN  (\E i \in DOMAIN r.sent : r.sent[i].kind # "lookup" /\ ~r.sent[i].ok) =>
            /\ r.pc \in {"create", "update", "done"}
            /\ r.pc \in {"create", "update"} => r.batches # <<>>
            /\ r.pc = "done" =>
                  /\ Entries(creates) = r.to_create
                  /\ Entries(updates) = r.to_update
                  /\ r.sent = Requests(r.sent, "lookup") \o creates \o updates
            /\ \A i \in DOMAIN creates :
                  ~creates[i].ok =>
                      \A j \in DOMAIN creates[i].batch, k \in DOMAIN store :
                          store[k].fields["FixtureID"] # creates[i].batch[j]["FixtureID"]
            /\ \A i \in DOMAIN updates :
                  ~updates[i].ok =>
                      \A j \in DOMAIN updates[i].batch :
                          RowOf(updates[i].batch[j].id).fields["Venue"] = "Old Ground"

\* a football run of 13 creates and 10 updates: the first create batch failed, the
\* second create batch and the update batch were submitted after it and succeeded
C12_Witness ==
    LET r == run[1]
        w == Requests(r.sent, "create") \o Requests(r.sent, "update")
    IN  /\ r.pc = "done"
        /\ r.script = "football"
        /\ Len(r.to_create) = 13
        /\ Len(r.to_update) = 10
        /\ Len(w) = 3
        /\ ~w[1].ok /\ w[1].kind = "create" /\ Len(w[1].batch) = 10
        /\ w[2].ok /\ w[2].kind = "create" /\ Len(w[2].batch) = 3
        /\ w[3].ok /\ w[3].kind = "update"
        /\ Len(store) = 13
        /\ \A k \in 1..10 : store[k].fields["Venue"] = "Aviva Stadium"

\* the batches of one kind are a split of plan into requests of 1 to 10 entries
IsBatching(reqs, plan) ==
    /\ Len(reqs) = Ceil(Len(plan), WriteBatch)
    /\ \A i \in DOMAIN reqs :
          /\ Len(reqs[i].batch) >= 1
          /\ Len(reqs[i].batch) <= WriteBatch
          /\ i < Len(reqs) => Len(reqs[i].batch) = WriteBatch
    /\ Entries(reqs) = plan

\* C13 (writer batching): when upsert_to_airtable has ended, in each of the three
\* scripts, the create requests sent are ceil(m/10) requests of 1 to 10 entries,
\* all but the last of 10, which concatenated give the create plan, and likewise
\* the update requests for the update plan.
C13_WriterBatching ==
    LET r == run[1]
    IN  (r.pc \in {"done", "crashed"} /\ r.last.kind # "none") =>
            /\ IsBatching(Requests(r.sent, "create"), r.to_create)
            /\ IsBatching(Requests(r.sent, "update"), r.to_update)

(***************************************************************************)
(* The normalisers (SpecFn).                                               *)
(***************************************************************************)
\* the date text under key k is missing or empty
NoDate(d, k) == k \notin DOMAIN d \/ d[k] = EmptyStr

\* the payload lacks an identity, lacks a date, or its date cannot be parsed
Malformed(script, fx) ==
    CASE script = "football" ->
             LET fixture_info == Get(fx, "fixture", EmptyDict)
             IN  \/ "id" \notin DOMAIN fixture_info
                 \/ NoDate(fixture_info, "date")
                 \/ ~IsTimestamp(fixture_info["date"])
      [] script = "rugby" ->
             "id" \notin DOMAIN fx \/ NoDate(fx, "date") \/ ~IsTimestamp(fx["date"])
      [] script = "gaa" ->
             \/ "FixtureID" \notin DOMAIN fx
             \/ fx["FixtureID"] = ""
             \/ NoDate(fx, "Date")
             \/ ~(IsTimestamp(fx["Date"]) \/ IsDateOnly(fx["Date"]))

\* C16 (malformed input is dropped, never raised): normalise_all of each script
\* returns a list whatever the payloads, and the normaliser returns None for
\* every payload of the list that lacks an identity, lacks a date or has a date
\* that cannot be parsed.
C16_MalformedDropped ==
    (fn.op = "normalise_all" /\ fn.out # Pending) =>
        /\ fn.out.kind = "ok"
        /\ \A i \in DOMAIN fn.raw :
              Malformed(fn.script, fn.raw[i]) =>
                  Normalise(fn.script, fn.raw[i], fn.today).kind = "none"

\* C18 (identities are unique across sources): the FixtureID values that the
\* normalisers of two different scripts return are different.
C18_GloballyUniqueIds ==
    (fn.op = "normalise" /\ fn.out # Pending) =>
        \A a, b \in Scripts :
            (a # b /\ fn.out.of[a].kind = "ok" /\ fn.out.of[b].kind = "ok") =>
                fn.out.of[a].fields["FixtureID"] # fn.out.of[b].fields["FixtureID"]

(***************************************************************************)
(* main() under any environment (SpecPre).                                 *)
(***************************************************************************)
\* C17 (precondition check): a run started without AIRTABLE_API_KEY or without
\* AIRTABLE_BASE_ID sends no request to the store.
C17_PreconditionCheck ==
    \A p \in DOMAIN run :
        (run[p].pc # "idle" /\ ~(run[p].env.AIRTABLE_API_KEY /\ run[p].env.AIRTABLE_BASE_ID))
            => run[p].sent = <<>>

(***************************************************************************)
(* Two concurrent runs (SpecConc).                                         *)
(***************************************************************************)
\* the rows of the table with identity x
RowsOf(x) == {i \in DOMAIN store : store[i].fields["FixtureID"] = x}

\* run p is past its lookup, x is among its records and its lookup found no row
LookedUpAbsent(p, x) ==
    /\ run[p].pc \in {"create", "update", "done"}
    /\ x \in FixtureIds(run[p].records)
    /\ x \notin DOMAIN run[p].existing

\* C19 (uncoordinated concurrent runs can duplicate): when the lookups of two
\* runs both found no row for an identity they share, both runs have it in
\* their create plan, and once both have ended with every request answered with
\* success the table holds at least two rows for it.
C19_ConcurrentDuplicate ==
    \A x \in UNION {FixtureIds(run[p].records) : p \in Procs} :
        (\A p \in Procs : LookedUpAbsent(p, x)) =>
            /\ \A p \in Procs : x \in FixtureIds(run[p].to_create)
            /\ (\A p \in Procs : run[p].pc = "done" /\ run[p].allOk)
                   => Cardinality(RowsOf(x)) >= 2

\* two football runs fetched fixture 2, which had no row; both looked up before
\* either created, both created, and the table has two rows for "2"
C19_Witness ==
    /\ \A p \in Procs :
          /\ run[p].script = "football"
          /\ run[p].pc = "done"
          /\ run[p].allOk
          /\ FixtureIds(run[p].to_create) = {"2"}
          /\ run[p].sent[1].kind = "lookup"
    /\ Cardinality(RowsOf("2")) = 2
    /\ Len(store) = 3

(***************************************************************************)
(* Serialised runs (Spec).                                                 *)
(***************************************************************************)
SyncedFields == {"Date", "Time", "Sport", "TeamA", "TeamB", "Venue"}

\* C20 (up-to-date rows): when a run has ended and every lookup and write request
\* it sent succeeded, every row whose FixtureID is that of a record of the run
\* has the record's Date, Time, Sport, TeamA, TeamB and Venue.
C20_UpToDateRows ==
    LET r == run[1]
    IN  (r.pc \in {"done", "crashed"} /\ r.last.kind # "none" /\ r.allOk) =>
            \A j \in DOMAIN r.records, i \in DOMAIN store :
                store[i].fields["FixtureID"] = r.records[j]["FixtureID"] =>
                    \A k \in SyncedFields : store[i].fields[k] = r.records[j][k]

(***************************************************************************)
(* The canonical record (SpecFn).                                          *)
(***************************************************************************)
CanonicalKeys == {"FixtureID", "Date", "Time", "Sport", "TeamA", "TeamB", "TV", "Venue"}

\* one payload of each source went through its normaliser
OneApplied == fn.op = "normalise" /\ fn.out # Pending

\* what the raw payload holds for the team and venue fields of the canonical
\* record: the value, None when the key is missing or null
RawField(script, fx, k) ==
    LET teams   == Get(fx, "teams", EmptyDict)
        fixture == Get(fx, "fixture", EmptyDict)
        nested  == IF k = "TeamA" THEN Get(Get(teams, "home", EmptyDict), "name", None)
                   ELSE IF k = "TeamB"
                   THEN Get(Get(teams, "away", EmptyDict), "name", None)
                   ELSE Get(Get(fixture, "venue", EmptyDict), "name", None)
        flat    == IF k = "TeamA" THEN Get(fx, "home", None)
                   ELSE IF k = "TeamB" THEN Get(fx, "away", None)
                   ELSE Get(fx, "venue", None)
    IN  CASE script = "football" -> nested
          [] script = "rugby"    -> flat
          [] script = "gaa"      -> Get(fx, k, None)

\* C21 (every field is present): every canonical record a normaliser returns has
\* the eight keys FixtureID, Date, Time, Sport, TeamA, TeamB, TV, Venue, each
\* with a text value (never null), and a team or venue that is missing, null or
\* empty in the raw payload is the empty string in the record.
C21_EveryFieldPresent ==
    OneApplied =>
        \A script \in Scripts :
            fn.out.of[script].kind = "ok" =>
                LET rec == fn.out.of[script].fields
                IN  /\ DOMAIN rec = CanonicalKeys
                    /\ \A k \in CanonicalKeys : rec[k] # None
                    /\ \A k \in {"TeamA", "TeamB", "Venue"} :
                          RawField(script, fn.raw[script], k) \in {None, ""}
                              => rec[k] = ""

\* the date text of a raw payload, EmptyStr when there is none
RawDate(script, fx) ==
    CASE script = "football" -> Get(Get(fx, "fixture", EmptyDict), "date", EmptyStr)
      [] script = "rugby"    -> Get(fx, "date", EmptyStr)
      [] script = "gaa"      -> Get(fx, "Date", EmptyStr)

\* the Europe/Dublin calendar date and clock time of the instants of the inputs
\* (Irish Standard Time, UTC+1, until 26 October 2025; GMT after)
LocalOf(ts) ==
    CASE ts = TS1   -> [Date |-> "2025-07-27", Time |-> "14:00"]
      [] ts = TS2   -> [Date |-> "2025-08-01", Time |-> "00:30"]
      [] ts = TS3   -> [Date |-> "2025-08-03", Time |-> "02:15"]
      [] ts = TSFar -> [Date |-> "2025-12-31", Time |-> "15:00"]

\* C22 (date normalisation): for every raw payload whose timestamp parses and
\* for which the football, rugby or GAA normaliser returns a record, Date is the
\* local calendar date and Time the local clock time of the timestamp's instant,
\* also when the offset moves the instant across midnight.
C22_DateNormalisation ==
    OneApplied =>
        \A script \in Scripts :
            (fn.out.of[script].kind = "ok" /\ IsTimestamp(RawDate(script, fn.raw[script])))
                => LET rec   == fn.out.of[script].fields
                       local == LocalOf(RawDate(script, fn.raw[script]))
                   IN  rec["Date"] = local.Date /\ rec["Time"] = local.Time

\* the label has the word in some spelling of upper and lower case
Spelled(label, spellings) == \E i \in DOMAIN label : label[i] \in spellings

FootballSpellings == {"football", "Football", "FOOTBALL"}
HurlingSpellings  == {"hurling", "Hurling", "HURLING"}

\* the competition label of a GAA payload, empty when missing or null
LabelOf(raw) ==
    IF "Sport" \in DOMAIN raw /\ raw["Sport"] # NullLabel THEN raw["Sport"] ELSE <<>>

\* C23 (sport classification): normalise_gaa_fixture gives "Gaelic" for a label
\* that contains "football" in any case (also when it contains "hurling" too),
\* otherwise "Hurling" for a label that contains "hurling" in any case, and "GAA"
\* for any other label, a missing, null or empty one included.
C23_SportClassification ==
    (OneApplied /\ fn.out.of["gaa"].kind = "ok") =>
        LET label == LabelOf(fn.raw["gaa"])
        IN  fn.out.of["gaa"].fields["Sport"] =
                IF Spelled(label, FootballSpellings) THEN "Gaelic"
                ELSE IF Spelled(label, HurlingSpellings) THEN "Hurling"
                ELSE "GAA"

\* a label that names hurling before football was classified as "Gaelic"
C23_Witness ==
    /\ OneApplied
    /\ fn.out.of["gaa"].kind = "ok"
    /\ LabelOf(fn.raw["gaa"]) = <<"Hurling", "and", "Football", "Finals">>
    /\ fn.out.of["gaa"].fields["Sport"] = "Gaelic"

(***************************************************************************)
(* The life of a row (Spec).                                               *)
(***************************************************************************)
RowHandles(rows) == {rows[i].id : i \in DOMAIN rows}

\* the FixtureID of the row with the given handle
KeyOf(rows, handle) ==
    rows[CHOOSE i \in DOMAIN rows : rows[i].id = handle].fields["FixtureID"]

\* C24 (rows are never removed or re-keyed): in every step of every run the
\* requests sent are lookups, batch-creates and batch-updates only, every row
\* handle of the table is still in the table after the step with the FixtureID
\* it had, and every entry of the update plan carries the FixtureID under which
\* the resolver found its row handle, which is the FixtureID of that row.
C24_NeverRemovedOrRekeyed ==
    [][/\ RowHandles(store) \subseteq RowHandles(store')
       /\ \A h \in RowHandles(store) : KeyOf(store', h) = KeyOf(store, h)
       /\ \A i \in DOMAIN run'[1].sent :
             run'[1].sent[i].kind \in {"lookup", "create", "update"}
       /\ \A i \in DOMAIN run'[1].to_update :
             LET entry == run'[1].to_update[i]
                 fid   == entry.fields["FixtureID"]
             IN  /\ fid \in DOMAIN run'[1].existing
                 /\ run'[1].existing[fid] = entry.id
                 /\ entry.id \in RowHandles(store')
                 /\ KeyOf(store', entry.id) = fid]_vars

\* a football run found the rows of fixtures 1 and 2, one curated and one created
\* by the run before, and updated both: each row has the FixtureID it had
C24_Witness ==
    /\ run[1].script = "football"
    /\ run[1].pc = "done"
    /\ run[1].allOk
    /\ Len(run[1].to_update) = 2
    /\ run[1].last.kind = "update"
    /\ Len(store) = 2
    /\ KeyOf(store, "rec0") = "1"
    /\ KeyOf(store, "rec1") = "2"

(***************************************************************************)
(* The full sync (SpecAll).                                                *)
(***************************************************************************)
\* the events of the log without the outcome of the exits
Plain(log) == [j \in DOMAIN log |-> [ev |-> log[j].ev, script |-> log[j].script]]

\* start and exit of football, then of rugby, then of GAA
FixedOrder ==
    << [ev |-> "start", script |-> "football"], [ev |-> "exit", script |-> "football"],
       [ev |-> "start", script |-> "rugby"],    [ev |-> "exit", script |-> "rugby"],
       [ev |-> "start", script |-> "gaa"],      [ev |-> "exit", script |-> "gaa"] >>

\* C25 (full-sync orchestration): at every moment the scripts started and exited
\* so far are a prefix of football, rugby, GAA, each started only after the one
\* before has exited and at most one child running; the orchestrator reaches its
\* completion message in every run, whatever script failed, and by then all
\* three scripts were run.
C25_FullSyncOrchestration ==
    /\ [](/\ Len(orch.log) <= Len(FixedOrder)
          /\ Plain(orch.log) = SubSeq(FixedOrder, 1, Len(orch.log))
          /\ (run[1].pc # "idle") => /\ orch.pc = "waiting"
                                     /\ orch.log[Len(orch.log)].ev = "start"
                                     /\ orch.log[Len(orch.log)].script = run[1].script
          /\ (orch.pc = "complete") => Plain(orch.log) = FixedOrder)
    /\ <>(orch.pc = "complete")

\* the football child and the rugby child failed, the GAA script was run after
\* them and the completion message was reached
C25_Witness ==
    /\ orch.pc = "complete"
    /\ Len(orch.log) = 6
    /\ orch.log[2].failed
    /\ orch.log[4].failed
    /\ ~orch.log[6].failed
    /\ Len(store) > 1

=============================================================================
